---- MODULE Spec2Model ----
(***************************************************************************)
(* Model of slate (src/main.go): the metadata header parser, the content   *)
(* loader, the URL deriver, the site assembler, the renderer and the       *)
(* build orchestrator.                                                     *)
(*                                                                         *)
(* Text is modelled as sequences of symbols.  In paths every symbol is one *)
(* byte.  In file contents a symbol is one byte ("-", "\n", "x") or the    *)
(* bytes of one complete metadata entry (TitleTok, a date entry), which    *)
(* hold neither "-" at their ends nor a newline, so that prefix tests,     *)
(* searches and slicing act on symbols exactly as they act on bytes.       *)
(***************************************************************************)
EXTENDS Integers, Sequences, FiniteSets, TLC

VARIABLES
    content,        \* parser harness: the bytes handed to parseFrontmatter
    result,         \* parser harness: what parseFrontmatter returned
    tree,           \* the files under content/, each [dir, name, content]
    pc,             \* position of build() in its sequence
    failed,         \* the fatal error build() printed, "none" before one
    markdownFiles,  \* build(): paths returned by findMarkdownFiles
    pages,          \* build(): pages returned by generateHtml
    blogPosts,      \* build(): the blog post list
    homePage,       \* build(): index into pages of the home page, 0 = nil
    postIdx,        \* build(): position of the post render loop
    out,            \* the output tree: path -> what was last written there
    writes          \* every creation/truncation of an output file, in order

vars == <<content, result, tree, pc, failed, markdownFiles, pages, blogPosts,
          homePage, postIdx, out, writes>>

buildVars == <<tree, pc, failed, markdownFiles, pages, blogPosts, homePage,
               postIdx, out, writes>>

(***************************************************************************)
(* Bounds.                                                                 *)
(***************************************************************************)
MaxLen == 9
MaxFiles == 3

(***************************************************************************)
(* Library operations on byte strings, as the code uses them.              *)
(***************************************************************************)
HasPrefix(s, p) == Len(s) >= Len(p) /\ SubSeq(s, 1, Len(p)) = p

HasSuffix(s, p) == Len(s) >= Len(p) /\ SubSeq(s, Len(s) - Len(p) + 1, Len(s)) = p

\* 0-based index of the first occurrence of sep in s, -1 when there is none
Index(s, sep) ==
    LET hits == {i \in 0..(Len(s) - Len(sep)) : SubSeq(s, i + 1, i + Len(sep)) = sep}
    IN  IF hits = {} THEN -1 ELSE CHOOSE i \in hits : \A j \in hits : i <= j

Contains(s, sub) == Index(s, sub) /= -1

TrimPrefix(s, p) == IF HasPrefix(s, p) THEN SubSeq(s, Len(p) + 1, Len(s)) ELSE s

TrimSuffix(s, p) == IF HasSuffix(s, p) THEN SubSeq(s, 1, Len(s) - Len(p)) ELSE s

LowerByte(c) ==
    CASE c = "M" -> "m"
      [] c = "D" -> "d"
      [] OTHER -> c

ToLower(s) == [i \in 1..Len(s) |-> LowerByte(s[i])]

\* s[lo:] of a Go slice (lo is 0-based)
SliceFrom(s, lo) == SubSeq(s, lo + 1, Len(s))

\* s[:hi] of a Go slice
SliceTo(s, hi) == SubSeq(s, 1, hi)

(***************************************************************************)
(* Metadata header parser.                                                 *)
(***************************************************************************)
Delim == <<"-", "-", "-">>
NlDelim == <<"\n", "-", "-", "-">>

TitleTok == "title: \"T\""
DateToks == {"date: \"2024-01-01\"", "date: \"2025-06-01\"",
             "date: \"0000-06-01\"", "date: \"2024-13-01\""}
EntryToks == {TitleTok} \cup DateToks

\* the value a metadata entry carries
EntryValue(tok) ==
    CASE tok = TitleTok -> "T"
      [] tok = "date: \"2024-01-01\"" -> "2024-01-01"
      [] tok = "date: \"2025-06-01\"" -> "2025-06-01"
      [] tok = "date: \"0000-06-01\"" -> "0000-06-01"
      [] tok = "date: \"2024-13-01\"" -> "2024-13-01"
      [] OTHER -> ""

EmptyFm == [Title |-> "", Date |-> ""]

RECURSIVE SplitLines(_)
SplitLines(s) ==
    LET i == Index(s, <<"\n">>)
    IN  IF i = -1 THEN <<s>>
        ELSE <<SliceTo(s, i)>> \o SplitLines(SliceFrom(s, i + 1))

\* yaml.Unmarshal into Frontmatter.  A block of entries, one per line, decodes
\* to its title and date.  An entry with other bytes before its key has an
\* unknown key and is ignored.  A repeated key, or a non-blank line that is no
\* entry, makes the decode fail, and the fields stay empty.
KeyName(tok) == IF tok = TitleTok THEN "title" ELSE "date"

IsEntryLine(l) ==
    /\ Len(l) >= 1
    /\ l[Len(l)] \in EntryToks
    /\ \A i \in 1..(Len(l) - 1) : l[i] \notin EntryToks

LineKey(l) == <<SliceTo(l, Len(l) - 1), KeyName(l[Len(l)])>>

FieldOf(lines, key) ==
    LET hits == {i \in 1..Len(lines) : lines[i] /= <<>> /\ LineKey(lines[i]) = <<<<>>, key>>}
    IN  IF hits = {} THEN "" ELSE EntryValue(lines[CHOOSE i \in hits : TRUE][1])

yamlUnmarshal(block) ==
    LET lines == SplitLines(block)
        used  == {i \in 1..Len(lines) : lines[i] /= <<>>}
    IN  IF \E i \in used : ~IsEntryLine(lines[i]) THEN EmptyFm
        ELSE IF \E i, j \in used : i /= j /\ LineKey(lines[i]) = LineKey(lines[j]) THEN EmptyFm
        ELSE [Title |-> FieldOf(lines, "title"), Date |-> FieldOf(lines, "date")]

\* What a call of parseFrontmatter does: it returns (fm, body), or it panics
\* with an index out of range.
Returned(fm, body) == [panic |-> FALSE, fm |-> fm, body |-> body]
Panicked == [panic |-> TRUE, fm |-> EmptyFm, body |-> <<>>]

parseFrontmatter_ReturnsRest(c) ==
    IF ~HasPrefix(c, Delim) THEN Returned(EmptyFm, c)
    ELSE LET rest == SliceFrom(c, 3)
             endIndex == Index(rest, NlDelim)
         IN  IF endIndex = -1 THEN Returned(EmptyFm, rest)
             ELSE LET yamlContent == SliceTo(rest, endIndex)
                  IN  IF Len(yamlContent) = 0 THEN Panicked
                      ELSE LET block == IF yamlContent[1] = "\n"
                                        THEN SliceFrom(yamlContent, 1) ELSE yamlContent
                               markdown == SliceFrom(rest, endIndex + 4)
                           IN  Returned(yamlUnmarshal(block),
                                        IF Len(markdown) > 0 /\ markdown[1] = "\n"
                                        THEN SliceFrom(markdown, 1) ELSE markdown)

parseFrontmatter(c) ==
    IF ~HasPrefix(c, Delim) THEN Returned(EmptyFm, c)
    ELSE LET rest == SliceFrom(c, 3)
             endIndex == Index(rest, NlDelim)
         IN  IF endIndex = -1 THEN Returned(EmptyFm, c)
             ELSE LET yamlContent == SliceTo(rest, endIndex)
                  IN  \* yamlContent[0] of an empty slice: index out of range
                      IF Len(yamlContent) = 0 THEN Panicked
                      ELSE LET block == IF yamlContent[1] = "\n"
                                        THEN SliceFrom(yamlContent, 1) ELSE yamlContent
                               markdown == SliceFrom(rest, endIndex + 4)
                           IN  Returned(yamlUnmarshal(block),
                                        IF Len(markdown) > 0 /\ markdown[1] = "\n"
                                        THEN SliceFrom(markdown, 1) ELSE markdown)

(***************************************************************************)
(* Parser harness: every input of up to MaxLen symbols, parsed once.       *)
(***************************************************************************)
Symbols == {"-", "\n", TitleTok}

Inputs == UNION {[1..n -> Symbols] : n \in 0..MaxLen}

NotParsed == [panic |-> FALSE, fm |-> EmptyFm, body |-> <<"?">>]

IdleBuild ==
    /\ tree = <<>> /\ pc = "idle" /\ failed = "none" /\ markdownFiles = <<>>
    /\ pages = <<>> /\ blogPosts = <<>> /\ homePage = 0 /\ postIdx = 0
    /\ out = <<>> /\ writes = <<>>

InitFM == content \in Inputs /\ result = NotParsed /\ IdleBuild

Parse ==
    /\ result = NotParsed
    /\ result' = parseFrontmatter(content)
    /\ UNCHANGED <<content, buildVars>>

SpecFM == InitFM /\ [][Parse]_vars

(***************************************************************************)
(* Paths.  The content tree holds files at the content root and in blog/.  *)
(***************************************************************************)
ContentRoot == <<"c", "o", "n", "t", "e", "n", "t">>
Public == <<"p", "u", "b", "l", "i", "c">>
Slash == <<"/">>
DotMd == <<".", "m", "d">>
DotHtml == <<".", "h", "t", "m", "l">>
IndexMdName == <<"i", "n", "d", "e", "x", ".", "m", "d">>
BlogSegment == <<"/", "b", "l", "o", "g", "/">>
IndexHtmlURL == <<"/", "i", "n", "d", "e", "x", ".", "h", "t", "m", "l">>
BlogIndexOutput == <<"p", "u", "b", "l", "i", "c", "/", "b", "l", "o", "g", "/", "i", "n", "d", "e", "x", ".", "h", "t", "m", "l">>
StylesOutput == <<"p", "u", "b", "l", "i", "c", "/", "s", "t", "y", "l", "e", "s", ".", "c", "s", "s">>

BlogDir == <<"b", "l", "o", "g">>

RootNames == {<<"i", "n", "d", "e", "x", ".", "m", "d">>,
              <<"z", "i", "n", "d", "e", "x", ".", "m", "d">>,
              <<"n", ".", "t", "x", "t">>}
BlogNames == {<<"a", ".", "m", "d">>,
              <<"a", ".", "M", "D">>,
              <<"a", ".", "M", "D", ".", "m", "d">>,
              <<"i", "n", "d", "e", "x", ".", "m", "d">>}

Entries == {[dir |-> <<>>, name |-> n] : n \in RootNames}
           \cup {[dir |-> <<BlogDir>>, name |-> n] : n \in BlogNames}

RECURSIVE JoinDir(_)
JoinDir(dir) == IF dir = <<>> THEN <<>> ELSE Slash \o Head(dir) \o JoinDir(Tail(dir))

\* the path filepath.WalkDir("content", ...) hands to its callback
PathOf(e) == ContentRoot \o JoinDir(e.dir) \o Slash \o e.name

\* bytes in ASCII order
ByteOrder == <<".", "/", "D", "M", "a", "b", "c", "d", "e", "g", "h", "i", "l",
               "m", "n", "o", "p", "s", "t", "u", "x", "y", "z">>
Code(c) == CHOOSE i \in 1..Len(ByteOrder) : ByteOrder[i] = c

RECURSIVE BytesLess(_, _)
BytesLess(a, b) ==
    IF b = <<>> THEN FALSE
    ELSE IF a = <<>> THEN TRUE
    ELSE IF Head(a) /= Head(b) THEN Code(Head(a)) < Code(Head(b))
    ELSE BytesLess(Tail(a), Tail(b))

\* WalkDir visits the entries of a directory in lexical order of their names,
\* and a directory's files before its later siblings.
RECURSIVE WalkLess(_, _)
WalkLess(ca, cb) ==
    IF cb = <<>> THEN FALSE
    ELSE IF ca = <<>> THEN TRUE
    ELSE IF Head(ca) /= Head(cb) THEN BytesLess(Head(ca), Head(cb))
    ELSE WalkLess(Tail(ca), Tail(cb))

Components(e) == e.dir \o <<e.name>>

WalkOrder(S) ==
    CHOOSE s \in [1..Cardinality(S) -> S] :
        \A i, j \in 1..Cardinality(S) :
            i < j => WalkLess(Components(s[i]), Components(s[j]))

(***************************************************************************)
(* URL and title derivation.                                               *)
(***************************************************************************)
pathToURL(path) == TrimSuffix(TrimPrefix(path, ContentRoot), DotMd) \o DotHtml

\* filepath.Base of a path that does not end in a separator
RECURSIVE Base(_)
Base(path) ==
    LET i == Index(path, Slash)
    IN  IF i = -1 THEN path ELSE Base(SliceFrom(path, i + 1))

ReplaceAll(s, from, to) == [i \in 1..Len(s) |-> IF s[i] = from THEN to ELSE s[i]]

UpperByte(c) ==
    CASE c = "a" -> "A" [] c = "b" -> "B" [] c = "d" -> "D" [] c = "e" -> "E"
      [] c = "i" -> "I" [] c = "m" -> "M" [] c = "n" -> "N" [] c = "t" -> "T"
      [] c = "x" -> "X" [] c = "z" -> "Z" [] OTHER -> c

IsSeparator(c) == c \in {".", " ", "/", "-"}

\* strings.Title: the letter that begins each word is upper-cased
TitleCase(s) ==
    [i \in 1..Len(s) |-> IF i = 1 \/ IsSeparator(s[i - 1]) THEN UpperByte(s[i]) ELSE s[i]]

extractTitle(path) ==
    TitleCase(ReplaceAll(ReplaceAll(TrimSuffix(Base(path), DotMd), "_", " "), "-", " "))

(***************************************************************************)
(* Dates.  A time.Time of the layout "2006-01-02" is <<year, month, day>>. *)
(***************************************************************************)
ZeroTime == <<1, 1, 1>>

After(t, u) ==
    \/ t[1] > u[1]
    \/ t[1] = u[1] /\ t[2] > u[2]
    \/ t[1] = u[1] /\ t[2] = u[2] /\ t[3] > u[3]

IsZero(t) == t = ZeroTime

\* the year, month and day digits of a date string
DateFields(s) ==
    CASE s = "2024-01-01" -> <<2024, 1, 1>>
      [] s = "2025-06-01" -> <<2025, 6, 1>>
      [] s = "0000-06-01" -> <<0, 6, 1>>
      [] s = "2024-13-01" -> <<2024, 13, 1>>

IsLeap(y) == y % 4 = 0 /\ (y % 100 /= 0 \/ y % 400 = 0)

DaysIn(m, y) ==
    IF m = 2 THEN (IF IsLeap(y) THEN 29 ELSE 28)
    ELSE IF m \in {4, 6, 9, 11} THEN 30 ELSE 31

\* date, _ = time.Parse("2006-01-02", s): the zero time when s does not parse
timeParse(s) ==
    LET f == DateFields(s)
    IN  IF f[2] \in 1..12 /\ f[3] >= 1 /\ f[3] <= DaysIn(f[2], f[1]) THEN f ELSE ZeroTime

(***************************************************************************)
(* Content loader.                                                         *)
(***************************************************************************)
\* the files of the tree the walk reaches, in walk order, that end in .md in
\* any letter case; a directory that cannot be read is skipped with a warning
findMarkdownFiles(t, blogReadable) ==
    LET reached == {e \in DOMAIN t : e.dir = <<>> \/ blogReadable}
        order == WalkOrder(reached)
        paths == [i \in 1..Len(order) |-> PathOf(order[i])]
    IN  SelectSeq(paths, LAMBDA q : HasSuffix(ToLower(q), DotMd))

\* the content of the file at a path of the tree
ReadFile(t, path) == t[CHOOSE e \in DOMAIN t : PathOf(e) = path]

\* the Page generateHtml builds from one file
PageOf(file, bytes) ==
    LET r == parseFrontmatter(bytes)
        fm == r.fm
    IN  [Path |-> file,
         URL |-> pathToURL(file),
         Title |-> IF fm.Title = "" THEN extractTitle(file) ELSE <<fm.Title>>,
         Date |-> IF fm.Date /= "" THEN timeParse(fm.Date) ELSE ZeroTime,
         Content |-> r.body]

(***************************************************************************)
(* Site assembler.                                                         *)
(***************************************************************************)
IsIndex(page) == HasSuffix(page.Path, IndexMdName)

IsBlog(page) == Contains(page.Path, BlogSegment)

\* the loop of build(): the last page with the index suffix is the home page
HomeOf(ps) ==
    LET hits == {i \in 1..Len(ps) : IsIndex(ps[i])}
    IN  IF hits = {} THEN 0 ELSE CHOOSE i \in hits : \A j \in hits : j <= i

PostsOf(ps) == SelectSeq(ps, LAMBDA q : ~IsIndex(q) /\ IsBlog(q))

less(a, b) == After(a.Date, b.Date)

Orderings(s) ==
    {[i \in 1..Len(s) |-> s[f[i]]] :
        f \in {g \in [1..Len(s) -> 1..Len(s)] : \A i, j \in 1..Len(s) : i /= j => g[i] /= g[j]}}

\* sort.Slice: the list ordered by less; it is not guaranteed to be stable, so
\* elements that less does not order may come out in any order
sortSlice(s) ==
    {r \in Orderings(s) : \A i, j \in 1..Len(r) : i < j => ~less(r[j], r[i])}

(***************************************************************************)
(* Renderer.  An output file holds the template and the data it was        *)
(* rendered from, and whether the rendering ran to its end.                *)
(***************************************************************************)
RenderOutcomes == {"ok", "mkdirErr", "createErr", "executeErr"}

\* os.Create has created or truncated the file in these outcomes
Created(outcome) == outcome \in {"ok", "executeErr"}

WriteFile(path, tmpl, data, outcome) ==
    IF Created(outcome)
    THEN (path :> [tmpl |-> tmpl, data |-> data, complete |-> outcome = "ok"]) @@ out
    ELSE out

\* renderPage and renderBlogIndex: MkdirAll, Create, Execute
Render(tmpl, data, outputPath, step, idx, outcome) ==
    /\ out' = WriteFile(outputPath, tmpl, data, outcome)
    /\ writes' = IF Created(outcome)
                 THEN Append(writes, [path |-> outputPath, step |-> step, idx |-> idx])
                 ELSE writes

(***************************************************************************)
(* Build orchestrator.                                                     *)
(***************************************************************************)
Plain == <<"x">>
WithHeader(tok) == Delim \o <<"\n", tok>> \o NlDelim \o <<"\n", "x">>
EmptyHeader == Delim \o NlDelim \o <<"\n", "x">>

FileContents == {Plain, EmptyHeader} \cup {WithHeader(tok) : tok \in DateToks}

\* the content of a file that is no Markdown file is never read
Trees ==
    {t \in UNION {[S -> FileContents] :
                    S \in {T \in SUBSET Entries : Cardinality(T) <= MaxFiles}} :
        \A e \in DOMAIN t : ~HasSuffix(ToLower(e.name), DotMd) => t[e] = Plain}

Init ==
    /\ content = <<>> /\ result = NotParsed
    /\ tree \in Trees
    /\ pc = "statContent" /\ failed = "none"
    /\ markdownFiles = <<>> /\ pages = <<>> /\ blogPosts = <<>>
    /\ homePage = 0 /\ postIdx = 0
    /\ out = <<>> /\ writes = <<>>

\* fmt.Println(message); return
Abort(msg) == failed' = msg /\ pc' = "aborted"

StatContent ==
    /\ pc = "statContent"
    /\ \E exists \in BOOLEAN :
        /\ ~exists => DOMAIN tree = {}
        /\ IF exists THEN pc' = "statTemplates" /\ failed' = failed
           ELSE Abort("Missing content/ directory")
    /\ UNCHANGED <<content, result, tree, markdownFiles, pages, blogPosts, homePage,
                   postIdx, out, writes>>

StatTemplates ==
    /\ pc = "statTemplates"
    /\ \E exists \in BOOLEAN :
        IF exists THEN pc' = "find" /\ failed' = failed
        ELSE Abort("Missing templates/ directory")
    /\ UNCHANGED <<content, result, tree, markdownFiles, pages, blogPosts, homePage,
                   postIdx, out, writes>>

FindMarkdownFiles ==
    /\ pc = "find"
    /\ \E blogReadable \in BOOLEAN :
        markdownFiles' = findMarkdownFiles(tree, blogReadable)
    /\ pc' = "generate"
    /\ UNCHANGED <<content, result, tree, failed, pages, blogPosts, homePage,
                   postIdx, out, writes>>

\* generateHtml: files are read and parsed in order; failAt is the first file
\* whose read or Markdown conversion fails (0: none does)
GenerateHtml ==
    /\ pc = "generate"
    /\ \E failAt \in 0..Len(markdownFiles) :
        LET n == Len(markdownFiles)
            panics == {i \in 1..n : parseFrontmatter(ReadFile(tree, markdownFiles[i])).panic}
            stop == IF failAt = 0 THEN n + 1 ELSE failAt
        IN  IF \E i \in panics : i < stop
            THEN pc' = "panicked" /\ failed' = failed /\ pages' = pages
            ELSE IF failAt /= 0
            THEN Abort("Error generating HTML") /\ pages' = pages
            ELSE /\ pages' = [i \in 1..n |->
                                PageOf(markdownFiles[i], ReadFile(tree, markdownFiles[i]))]
                 /\ pc' = "tmplHome" /\ failed' = failed
    /\ UNCHANGED <<content, result, tree, markdownFiles, blogPosts, homePage,
                   postIdx, out, writes>>

ParseTemplate_NoReturn(here, next, msg) ==
    /\ pc = here
    /\ \E parsed \in BOOLEAN :
        /\ pc' = next
        /\ failed' = IF parsed THEN failed ELSE msg
    /\ UNCHANGED <<content, result, tree, markdownFiles, pages, blogPosts, homePage,
                   postIdx, out, writes>>

\* template.ParseFiles(file); on an error, print and return
ParseTemplate(here, next, msg) ==
    /\ pc = here
    /\ \E parsed \in BOOLEAN :
        IF parsed THEN pc' = next /\ failed' = failed
        ELSE Abort(msg)
    /\ UNCHANGED <<content, result, tree, markdownFiles, pages, blogPosts, homePage,
                   postIdx, out, writes>>

ParseHomeTemplate ==
    ParseTemplate("tmplHome", "tmplPost", "Error parsing home.html template")

ParsePostTemplate ==
    ParseTemplate("tmplPost", "tmplBlogIndex", "Error parsing post.html template")

ParseBlogIndexTemplate ==
    ParseTemplate("tmplBlogIndex", "assemble", "Error parsing blog index template")

\* the classification loop and the sort
Assemble ==
    /\ pc = "assemble"
    /\ homePage' = HomeOf(pages)
    /\ blogPosts' \in sortSlice(PostsOf(pages))
    /\ pc' = "home"
    /\ UNCHANGED <<content, result, tree, failed, markdownFiles, pages, postIdx,
                   out, writes>>

AfterHome == IF Len(blogPosts) > 0 THEN "posts" ELSE "blogIndex"

RenderHome ==
    /\ pc = "home"
    /\ postIdx' = 1
    /\ IF homePage = 0
       THEN /\ pc' = AfterHome
            /\ UNCHANGED <<failed, pages, out, writes>>
       ELSE /\ pages' = [pages EXCEPT ![homePage].URL = IndexHtmlURL]
            /\ \E outcome \in RenderOutcomes :
                /\ Render("home", pages'[homePage], Public \o IndexHtmlURL, "home", 0, outcome)
                /\ IF outcome = "ok" THEN pc' = AfterHome /\ failed' = failed
                   ELSE Abort("Error rendering home page")
    /\ UNCHANGED <<content, result, tree, markdownFiles, blogPosts, homePage>>

\* one iteration of the loop over blogPosts
RenderPost ==
    /\ pc = "posts"
    /\ LET post == blogPosts[postIdx]
       IN  \E outcome \in RenderOutcomes :
            /\ Render("post", post, Public \o post.URL, "post", postIdx, outcome)
            /\ IF outcome = "ok"
               THEN /\ postIdx' = postIdx + 1
                    /\ pc' = IF postIdx = Len(blogPosts) THEN "blogIndex" ELSE "posts"
                    /\ failed' = failed
               ELSE Abort("Error rendering blog post") /\ postIdx' = postIdx
    /\ UNCHANGED <<content, result, tree, markdownFiles, pages, blogPosts, homePage>>

RenderBlogIndex ==
    /\ pc = "blogIndex"
    /\ \E outcome \in RenderOutcomes :
        /\ Render("blog_index", blogPosts, BlogIndexOutput, "blogIndex", 0, outcome)
        /\ IF outcome = "ok" THEN pc' = "static" /\ failed' = failed
           ELSE Abort("Error rendering blog index")
    /\ UNCHANGED <<content, result, tree, markdownFiles, pages, blogPosts, homePage,
                   postIdx>>

\* the stylesheet is copied when it can be read; a failed write is ignored
CopyStatic ==
    /\ pc = "static"
    /\ \E readable \in BOOLEAN, written \in BOOLEAN :
        /\ out' = IF readable /\ written
                  THEN (StylesOutput :> [tmpl |-> "static", data |-> <<>>, complete |-> TRUE]) @@ out
                  ELSE out
        /\ writes' = IF readable /\ written
                     THEN Append(writes, [path |-> StylesOutput, step |-> "static", idx |-> 0])
                     ELSE writes
    /\ pc' = "done"
    /\ UNCHANGED <<content, result, tree, failed, markdownFiles, pages, blogPosts,
                   homePage, postIdx>>

Next ==
    \/ StatContent
    \/ StatTemplates
    \/ FindMarkdownFiles
    \/ GenerateHtml
    \/ ParseHomeTemplate
    \/ ParsePostTemplate
    \/ ParseBlogIndexTemplate
    \/ Assemble
    \/ RenderHome
    \/ RenderPost
    \/ RenderBlogIndex
    \/ CopyStatic

Spec == Init /\ [][Next]_vars

(***************************************************************************)
(* Properties.                                                             *)
(***************************************************************************)
Assembled == pc \in {"home", "posts", "blogIndex", "static", "done"}

HasDate(page) == ~IsZero(page.Date)

\* position of the page with this source path in the loader's list
LoadedAt(path) == CHOOSE i \in 1..Len(pages) : pages[i].Path = path

RootIndexPath == ContentRoot \o Slash \o IndexMdName

\* C1: the rendered post list is ordered by Date descending, and every post
\* without a date comes after every post that has one.
C1_NewestFirstAbsentLast ==
    Assembled =>
        \A i, j \in 1..Len(blogPosts) :
            /\ i < j => ~After(blogPosts[j].Date, blogPosts[i].Date)
            /\ (HasDate(blogPosts[i]) /\ ~HasDate(blogPosts[j])) => i < j

\* C2: the sort is stable: posts with equal Date keep the relative order they
\* had in the list the loader returned.
C2_SortIsStable ==
    Assembled =>
        \A i, j \in 1..Len(blogPosts) :
            (i < j /\ blogPosts[i].Date = blogPosts[j].Date)
                => LoadedAt(blogPosts[i].Path) < LoadedAt(blogPosts[j].Path)

\* C3: parseFrontmatter never crashes, whatever bytes it is given.
C3_ParserNeverPanics == ~result.panic

\* C4: in a build that completes, when content/index.md was loaded,
\* public/index.html is written from the page whose source is content/index.md.
C4_RootIndexIsHome ==
    (pc = "done" /\ \E i \in 1..Len(pages) : pages[i].Path = RootIndexPath) =>
        /\ Public \o IndexHtmlURL \in DOMAIN out
        /\ out[Public \o IndexHtmlURL].tmpl = "home"
        /\ out[Public \o IndexHtmlURL].data.Path = RootIndexPath

\* C5: in a build that completes, every loaded page whose path contains /blog/
\* was rendered with the post template to the output path of its URL and is
\* an entry of the list given to the blog index.
C5_BlogPagesArePosts ==
    pc = "done" =>
        \A i \in 1..Len(pages) :
            IsBlog(pages[i]) =>
                /\ \E w \in 1..Len(writes) :
                    /\ writes[w].step = "post"
                    /\ blogPosts[writes[w].idx].Path = pages[i].Path
                    /\ writes[w].path = Public \o pathToURL(pages[i].Path)
                /\ \E k \in 1..Len(out[BlogIndexOutput].data) :
                    out[BlogIndexOutput].data[k].Path = pages[i].Path

\* C6: for every path the loader discovers, the URL is the path with the
\* content root stripped and its trailing Markdown extension (in whatever
\* letter case) replaced by .html: it ends in .html and holds no Markdown
\* extension.
C6_ExtensionReplaced ==
    \A i \in 1..Len(markdownFiles) :
        LET path == markdownFiles[i]
            url == pathToURL(path)
        IN  /\ url = SubSeq(path, Len(ContentRoot) + 1, Len(path) - Len(DotMd)) \o DotHtml
            /\ HasSuffix(url, DotHtml)
            /\ ~HasSuffix(ToLower(TrimSuffix(url, DotHtml)), DotMd)

PreconditionErrors ==
    {"Missing content/ directory", "Missing templates/ directory",
     "Error parsing home.html template", "Error parsing post.html template",
     "Error parsing blog index template"}

\* C7: when the content directory, the templates directory or one of the three
\* templates is missing or does not parse, the build has stopped and no
\* output file was created or written.
C7_PreconditionFailureWritesNothing ==
    failed \in PreconditionErrors =>
        /\ pc = "aborted"
        /\ writes = <<>>
        /\ DOMAIN out = {}

\* a build stopped by a missing blog index template although it had loaded
\* a home page and blog posts to render
C7_Witness ==
    /\ failed = "Error parsing blog index template"
    /\ pc = "aborted"
    /\ HomeOf(pages) /= 0
    /\ Len(PostsOf(pages)) >= 2

\* C8: once a step has failed fatally no output file is created or written
\* any more, and the failing step leaves every file written before it in
\* place and unchanged.
C8_FailureStopsAndKeepsOutput ==
    [][/\ failed /= "none" => (out' = out /\ writes' = writes)
       /\ (failed = "none" /\ failed' /= "none") =>
            \A q \in DOMAIN out : q \in DOMAIN out' /\ out'[q] = out[q]]_vars

\* no newline followed by the delimiter after the opening delimiter
NoClosing(c) == ~\E i \in 4..(Len(c) - 3) : SubSeq(c, i, i + 3) = NlDelim

\* C9: content that does not begin with the delimiter, or begins with it and
\* has no later newline followed by the delimiter, parses to empty metadata
\* and a body equal to the whole input.
C9_NoHeaderIsAllBody ==
    (result /= NotParsed /\ (~HasPrefix(content, Delim) \/ NoClosing(content))) =>
        /\ ~result.panic
        /\ result.fm.Title = "" /\ result.fm.Date = ""
        /\ result.body = content

\* an input with an unclosed opening delimiter and a metadata entry was parsed
C9_Witness ==
    /\ result /= NotParsed
    /\ HasPrefix(content, Delim)
    /\ NoClosing(content)
    /\ \E i \in 4..Len(content) : content[i] = TitleTok
    /\ result.body = content

\* C10: no output file is created or written by more than one step of a build.
C10_NoOutputWrittenTwice ==
    \A i, j \in 1..Len(writes) : i /= j => writes[i].path /= writes[j].path

====
